---- MODULE Spec2Model ----
(***************************************************************************)
(* A model of logical-rs: the nine-valued Ieee1164 scalar with its truth   *)
(* tables, the multi-driver Signal with its Ports, and the Circuit tick    *)
(* scheduler.                                                              *)
(***************************************************************************)
EXTENDS Integers, Sequences, FiniteSets, TLC

VARIABLES
    calc,          \* the scalar operation being evaluated (operands, operator, result),
                   \* or the LogicVector under test and the last call made on it
    pv,            \* InnerPort.value of every port
    alive,         \* whether some Port handle (Arc<InnerPort>) still exists
    psignal,       \* InnerPort.signal, the weak back-link of every port
    input_ports,   \* InnerSignal.input_ports of every signal (drivers)
    output_ports,  \* InnerSignal.output_ports of every signal (loads)
    last,          \* the last Signal/Port operation and what it returned
    comps,         \* the components of the circuit under simulation
    updater,       \* Circuit.updater
    ret,           \* what the last Circuit.tick returned
    calls,         \* the components the last tick called update on, in call order
    reports,       \* what each of those update calls reported
    phase,         \* the caller's position: build, idle (built, no input
                   \* written yet), ready, run (the last tick returned true),
                   \* stable (it returned false), capped (the loop ended on
                   \* its iteration cap)
    ticks,         \* tick calls since the inputs were last written
    applied        \* how many times the caller has written the inputs

vars == << calc, pv, alive, psignal, input_ports, output_ports, last,
           comps, updater, ret, calls, reports, phase, ticks, applied >>

sigvars  == << alive, psignal, input_ports, output_ports, last >>
circvars == << comps, updater, ret, calls, reports, phase, ticks, applied >>

-----------------------------------------------------------------------------
(* Ieee1164: the nine values, named by their canonical character.          *)

vU == "U"
vX == "X"
v0 == "0"
v1 == "1"
vZ == "Z"
vW == "W"
vL == "L"
vH == "H"
vD == "-"

Ieee1164 == { vU, vX, v0, v1, vZ, vW, vL, vH, vD }

to_index(v) ==
    CASE v = vU -> 0
      [] v = vX -> 1
      [] v = v0 -> 2
      [] v = v1 -> 3
      [] v = vZ -> 4
      [] v = vW -> 5
      [] v = vL -> 6
      [] v = vH -> 7
      [] v = vD -> 8

TTABLE_and ==
    <<  \* U   X   0   1   Z   W   L   H   -
        << vU, vU, v0, vU, vU, vU, v0, vU, vU >>,  \* U
        << vU, vX, v0, vX, vX, vX, v0, vX, vX >>,  \* X
        << v0, v0, v0, v0, v0, v0, v0, v0, v0 >>,  \* 0
        << vU, vX, v0, v1, vX, vX, v0, v1, vX >>,  \* 1
        << vU, vX, v0, vX, vX, vX, v0, vX, vX >>,  \* Z
        << vU, vX, v0, vX, vX, vX, v0, vX, vX >>,  \* W
        << v0, v0, v0, v0, v0, v0, v0, v0, v0 >>,  \* L
        << vU, vX, v0, v1, vX, vX, v0, v1, vX >>,  \* H
        << vU, vX, v0, vX, vX, vX, v0, vX, vX >>   \* -
    >>

TTABLE_or ==
    <<  \* U   X   0   1   Z   W   L   H   -
        << vU, vU, vU, v1, vU, vU, vU, v1, vU >>,  \* U
        << vU, vX, vX, v1, vX, vX, vX, v1, vX >>,  \* X
        << vU, vX, v0, v1, vX, vX, v0, v1, vX >>,  \* 0
        << v1, v1, v1, v1, v1, v1, v1, v1, v1 >>,  \* 1
        << vU, vX, vX, v1, vX, vX, vX, v1, vX >>,  \* Z
        << vU, vX, vX, v1, vX, vX, vX, v1, vX >>,  \* W
        << vU, vX, v0, v1, vX, vX, v0, v1, vX >>,  \* L
        << v1, v1, v1, v1, v1, v1, v1, v1, v1 >>,  \* H
        << vU, vX, vX, v1, vX, vX, vX, v1, vX >>   \* -
    >>

TTABLE_xor ==
    <<  \* U   X   0   1   Z   W   L   H   -
        << vU, vU, vU, vU, vU, vU, vU, vU, vU >>,  \* U
        << vU, vX, vX, vX, vX, vX, vX, vX, vX >>,  \* X
        << vU, vX, v0, v1, vX, vX, v0, v1, vX >>,  \* 0
        << vU, vX, v1, v0, vX, vX, v1, v0, vX >>,  \* 1
        << vU, vX, vX, vX, vX, vX, vX, vX, vX >>,  \* Z
        << vU, vX, vX, vX, vX, vX, vX, vX, vX >>,  \* W
        << vU, vX, v0, v1, vX, vX, v0, v1, vX >>,  \* L
        << vU, vX, v1, v0, vX, vX, v1, v0, vX >>,  \* H
        << vU, vX, vX, vX, vX, vX, vX, vX, vX >>   \* -
    >>

TTABLE_resolve ==
    <<  \* U   X   0   1   Z   W   L   H   -
        << vU, vU, vU, vU, vU, vU, vU, vU, vU >>,  \* U
        << vU, vX, vX, vX, vX, vX, vX, vX, vX >>,  \* X
        << vU, vX, v0, vX, v0, v0, v0, v0, vX >>,  \* 0
        << vU, vX, vX, v1, v1, v1, v1, v1, vX >>,  \* 1
        << vU, vX, v0, v1, vZ, vW, vL, vH, vX >>,  \* Z
        << vU, vX, v0, v1, vW, vW, vW, vW, vX >>,  \* W
        << vU, vX, v0, v1, vL, vW, vL, vW, vX >>,  \* L
        << vU, vX, v0, v1, vH, vW, vW, vH, vX >>,  \* H
        << vU, vX, vX, vX, vX, vX, vX, vX, vX >>   \* -
    >>

\* A slip in the AND table: a weak zero no longer forces the result.
and_weak_slip(a, b) ==
    IF a = vL /\ b = vH THEN vX
    ELSE TTABLE_and[to_index(a) + 1][to_index(b) + 1]

and(a, b) == TTABLE_and[to_index(a) + 1][to_index(b) + 1]

or(a, b) == TTABLE_or[to_index(a) + 1][to_index(b) + 1]

xor(a, b) == TTABLE_xor[to_index(a) + 1][to_index(b) + 1]

\* A NOT that turns uninitialized into unknown, like every other value that
\* is neither low nor high.
not_uninitialized_unknown(i) ==
    CASE i \in { vL, v0 } -> v1
      [] i \in { vH, v1 } -> v0
      [] OTHER -> vX

not(i) ==
    CASE i = vU -> vU
      [] i \in { vL, v0 } -> v1
      [] i \in { vH, v1 } -> v0
      [] OTHER -> vX

\* A slip in the resolve table: row 0 / column H keeps the weak driver.
resolve_asymmetric(a, b) ==
    IF a = v0 /\ b = vH THEN vH
    ELSE TTABLE_resolve[to_index(a) + 1][to_index(b) + 1]

\* A resolve in which don't-care is treated like the absence of a driver.
resolve_dontcare_transparent(a, b) ==
    IF a = vZ /\ b = vD THEN vD
    ELSE IF a = vD /\ b = vZ THEN vD
    ELSE TTABLE_resolve[to_index(a) + 1][to_index(b) + 1]

\* A resolve in which opposing weak drivers cancel to high impedance: still
\* symmetric, no longer associative.
resolve_weak_cancel(a, b) ==
    IF (a = vL /\ b = vH) \/ (a = vH /\ b = vL) THEN vZ
    ELSE TTABLE_resolve[to_index(a) + 1][to_index(b) + 1]

resolve(a, b) == TTABLE_resolve[to_index(a) + 1][to_index(b) + 1]

is_1H(v) == v = v1 \/ v = vH

is_0L(v) == v = v0 \/ v = vL

is_UXZ(v) == ~(is_1H(v) \/ is_0L(v))

is_01(v) == v = v0 \/ v = v1

-----------------------------------------------------------------------------
(* Values the variables of the other scenarios hold while one is explored. *)

IdleCalc == [ a |-> vU, b |-> vU, op |-> "none", r |-> vU ]

IdleLast == [ op |-> "none", s |-> "none", p |-> "none", res |-> "none", was |-> FALSE ]

SignalIdle ==
    /\ alive = << >>
    /\ psignal = << >>
    /\ input_ports = << >>
    /\ output_ports = << >>
    /\ last = IdleLast

CircuitIdle ==
    /\ comps = << >>
    /\ updater = << >>
    /\ ret = FALSE
    /\ calls = << >>
    /\ reports = << >>
    /\ phase = "none"
    /\ ticks = 0
    /\ applied = 0

-----------------------------------------------------------------------------
(* Port, PortConnector and Signal.  A port is named by its InnerPort; a    *)
(* PortConnector is the weak reference to it, live while alive[p] holds.   *)

Range(seq) == { seq[i] : i \in DOMAIN seq }

NoSignal == "none"

\* A direction test that takes an Input port for a driver as well.
IS_OUTPUT_also_input(d) == d = "Output" \/ d = "Input"

\* PortDirection::IS_OUTPUT / IS_INPUT / IS_INOUT of a direction
IS_OUTPUT(d) == d = "Output"

IS_INPUT(d) == d = "Input"

IS_INOUT(d) == d = "InOut"

\* Port::is_connected: the weak back-link upgrades
is_connected(p) == psignal[p] # NoSignal

\* PortConnector::is_valid
is_valid(p) == alive[p]

\* PartialEq for PortConnector: both upgrade and point to the same InnerPort
connector_eq(c, d) == is_valid(c) /\ is_valid(d) /\ c = d

\* Vec::contains
contains(list, c) == \E i \in DOMAIN list : connector_eq(list[i], c)

\* A connect that pushes the connector without looking for an equal one.
push_unique_no_check(list, c) == Append(list, c)

\* if !guard.contains(&connector) { guard.push(connector) }
push_unique(list, c) == IF contains(list, c) THEN list ELSE Append(list, c)

\* A disconnect that leaves the connector in the list.
remove_item_keeps(list, c) == list

\* Vec::remove_item: removes the first element equal to the connector
remove_item(list, c) ==
    IF ~contains(list, c) THEN list
    ELSE LET i == CHOOSE k \in DOMAIN list :
                      /\ connector_eq(list[k], c)
                      /\ \A j \in 1..(k - 1) : ~connector_eq(list[j], c)
         IN  SubSeq(list, 1, i - 1) \o SubSeq(list, i + 1, Len(list))

\* An update that does not prune expired connectors.
retain_valid_keeps_expired(list, al) == list

\* guard.retain(PortConnector::is_valid), with the liveness of the ports given
retain_valid(list, al) ==
    LET Valid(p) == al[p] IN SelectSeq(list, Valid)

RECURSIVE fold_resolve(_, _, _, _)
\* iter.filter_map(|pc| pc.value()).fold(e, |e, s| e.resolve(&s)) from index i on
fold_resolve(e, list, i, v) ==
    IF i > Len(list) THEN e
    ELSE fold_resolve(resolve(e, v[list[i]]), list, i + 1, v)

\* An update that seeds the fold with the first driver and then skips the rest.
resolved_value_first_only(ins, v) == v[ins[1]]

\* The value update computes from the live drivers ins (not empty)
resolved_value(ins, v) == fold_resolve(v[ins[1]], ins, 2, v)

\* Whether update reports a change: the resolved value differs from the prior
\* value of at least one load.
signal_changed(outs, v, r) == \E i \in DOMAIN outs : v[outs[i]] # r

\* An update that lets the loads float when no driver is left.
signal_update_floats(ins, outs, v, al) ==
    LET ins1  == retain_valid(ins, al)
        outs1 == retain_valid(outs, al)
        r     == IF ins1 = << >> THEN vZ ELSE resolved_value(ins1, v)
    IN  [ ins  |-> ins1,
          outs |-> outs1,
          v    |-> [ p \in DOMAIN v |-> IF p \in Range(outs1) THEN r ELSE v[p] ],
          changed |-> ins1 # << >> /\ signal_changed(outs1, v, r) ]

\* An update that reports a change whenever it has written to a load.
signal_update_reports_written(ins, outs, v, al) ==
    LET ins1  == retain_valid(ins, al)
        outs1 == retain_valid(outs, al)
    IN  IF ins1 = << >>
        THEN [ ins |-> ins1, outs |-> outs1, v |-> v, changed |-> FALSE ]
        ELSE LET r == resolved_value(ins1, v)
             IN  [ ins  |-> ins1,
                   outs |-> outs1,
                   v    |-> [ p \in DOMAIN v |->
                                IF p \in Range(outs1) THEN r ELSE v[p] ],
                   changed |-> outs1 # << >> ]

\* Signal::update on the connector lists ins / outs, port values v and port
\* liveness al: the pruned lists, the new port values and the change report.
signal_update(ins, outs, v, al) ==
    LET ins1  == retain_valid(ins, al)
        outs1 == retain_valid(outs, al)
    IN  IF ins1 = << >>
        THEN [ ins |-> ins1, outs |-> outs1, v |-> v, changed |-> FALSE ]
        ELSE LET r == resolved_value(ins1, v)
             IN  [ ins  |-> ins1,
                   outs |-> outs1,
                   v    |-> [ p \in DOMAIN v |->
                                IF p \in Range(outs1) THEN r ELSE v[p] ],
                   changed |-> signal_changed(outs1, v, r) ]

-----------------------------------------------------------------------------
(* One harness around two signals and four ports of the three directions.  *)

Ports == { "a", "b", "io", "o" }

Signals == { "s1", "s2" }

\* The connections the harness makes: every port to s1, the load also to s2
Attachable == { << "s1", p >> : p \in Ports } \cup { << "s2", "o" >> }

\* The ports whose last handle the harness lets go out of scope
Droppable == { "b", "o" }

PortDir == [ p \in Ports |->
               CASE p = "a"  -> "Output"
                 [] p = "b"  -> "Output"
                 [] p = "io" -> "InOut"
                 [] p = "o"  -> "Input" ]

\* The values the harness writes to its driver ports
WriteValues == { v0, vH }

\* The values the load port is created with
LoadInitValues == { vD }

InitSignal ==
    /\ calc = IdleCalc
    /\ pv \in { f \in [ Ports -> Ieee1164 ] :
                  /\ f["a"] = vU /\ f["b"] = vU /\ f["io"] = vU
                  /\ f["o"] \in LoadInitValues }
    /\ alive = [ p \in Ports |-> TRUE ]
    /\ psignal = [ p \in Ports |-> NoSignal ]
    /\ input_ports = [ s \in Signals |-> << >> ]
    /\ output_ports = [ s \in Signals |-> << >> ]
    /\ last = IdleLast
    /\ CircuitIdle

\* Whether some signal holds a live connector of port p (observed by the
\* harness before a connect, recorded in last.was)
has_connector(p) ==
    \E s \in Signals : contains(input_ports[s], p) \/ contains(output_ports[s], p)

\* Signal::connect
connect(s, p) ==
    /\ alive[p]
    /\ IF is_connected(p)
       THEN /\ last' = [ op |-> "connect", s |-> s, p |-> p,
                         res |-> "AlreadyConnected", was |-> has_connector(p) ]
            /\ UNCHANGED << input_ports, output_ports >>
       ELSE /\ input_ports' =
                 [ input_ports EXCEPT ![s] =
                     IF IS_OUTPUT(PortDir[p]) \/ IS_INOUT(PortDir[p])
                     THEN push_unique(@, p) ELSE @ ]
            /\ output_ports' =
                 [ output_ports EXCEPT ![s] =
                     IF IS_INPUT(PortDir[p]) \/ IS_INOUT(PortDir[p])
                     THEN push_unique(@, p) ELSE @ ]
            /\ last' = [ op |-> "connect", s |-> s, p |-> p, res |-> "Ok",
                         was |-> has_connector(p) ]
    /\ UNCHANGED << calc, pv, alive, psignal, circvars >>

\* Signal::disconnect
disconnect(s, p) ==
    /\ alive[p]
    /\ input_ports' =
         [ input_ports EXCEPT ![s] =
             IF IS_OUTPUT(PortDir[p]) \/ IS_INOUT(PortDir[p])
             THEN remove_item(@, p) ELSE @ ]
    /\ output_ports' =
         [ output_ports EXCEPT ![s] =
             IF IS_INPUT(PortDir[p]) \/ IS_INOUT(PortDir[p])
             THEN remove_item(@, p) ELSE @ ]
    /\ last' = [ op |-> "disconnect", s |-> s, p |-> p, res |-> "none",
                 was |-> contains(input_ports[s], p)
                            \/ contains(output_ports[s], p) ]
    /\ UNCHANGED << calc, pv, alive, psignal, circvars >>

\* Updateable::update for Signal
update(s) ==
    LET u == signal_update(input_ports[s], output_ports[s], pv, alive)
    IN  /\ input_ports' = [ input_ports EXCEPT ![s] = u.ins ]
        /\ output_ports' = [ output_ports EXCEPT ![s] = u.outs ]
        /\ pv' = u.v
        /\ last' = [ op |-> "update", s |-> s, p |-> "none",
                     res |-> IF u.changed THEN "changed" ELSE "unchanged",
                     was |-> u.ins # input_ports[s]
                                \/ u.outs # output_ports[s] ]
        /\ UNCHANGED << calc, alive, psignal, circvars >>

\* Port::replace, on a port whose direction permits writing
replace(p, value) ==
    /\ alive[p]
    /\ IS_OUTPUT(PortDir[p]) \/ IS_INOUT(PortDir[p])
    /\ pv' = [ pv EXCEPT ![p] = value ]
    /\ last' = [ op |-> "replace", s |-> "none", p |-> p, res |-> "none",
                 was |-> FALSE ]
    /\ UNCHANGED << calc, alive, psignal, input_ports, output_ports, circvars >>

\* The last handle of a port goes out of scope
drop(p) ==
    /\ alive[p]
    /\ alive' = [ alive EXCEPT ![p] = FALSE ]
    /\ last' = [ op |-> "drop", s |-> "none", p |-> p, res |-> "none",
                 was |-> FALSE ]
    /\ UNCHANGED << calc, pv, psignal, input_ports, output_ports, circvars >>

NextSignal ==
    \/ \E c \in Attachable : connect(c[1], c[2])
    \/ \E c \in Attachable : disconnect(c[1], c[2])
    \/ \E s \in Signals : update(s)
    \/ \E p \in Ports, value \in WriteValues : replace(p, value)
    \/ \E p \in Droppable : drop(p)

SpecSignal == InitSignal /\ [][NextSignal]_vars

\* The same ports with the one signal s1.
NextWire ==
    \/ \E p \in Ports : connect("s1", p)
    \/ \E p \in Ports : disconnect("s1", p)
    \/ update("s1")
    \/ \E p \in Ports, value \in WriteValues : replace(p, value)
    \/ \E p \in Droppable : drop(p)

SpecWire == InitSignal /\ [][NextWire]_vars

\* The one signal s1 again, its three driving ports holding any values when
\* they are connected, in any order.
InitDrivers ==
    /\ calc = IdleCalc
    /\ pv \in { f \in [ Ports -> Ieee1164 ] : f["o"] \in LoadInitValues }
    /\ alive = [ p \in Ports |-> TRUE ]
    /\ psignal = [ p \in Ports |-> NoSignal ]
    /\ input_ports = [ s \in Signals |-> << >> ]
    /\ output_ports = [ s \in Signals |-> << >> ]
    /\ last = IdleLast
    /\ CircuitIdle

NextDrivers ==
    \/ \E p \in Ports : connect("s1", p)
    \/ update("s1")

SpecDrivers == InitDrivers /\ [][NextDrivers]_vars

-----------------------------------------------------------------------------
(* Gates and the Circuit.  A component is a record: a signal with its      *)
(* driver ports (ins) and load ports (outs), or a gate with its input      *)
(* ports (ins) and its output port (outs).                                 *)

\* An inverter whose table maps a strong zero to itself.
gate_func_inv_slip(kind, a, b) ==
    CASE kind = "and" -> and(a, b)
      [] kind = "or"  -> or(a, b)
      [] kind = "xor" -> xor(a, b)
      [] kind = "buf" -> a
      [] kind = "inv" -> IF a = v0 THEN v0 ELSE not(a)

\* An XOR gate that computes OR.
gate_func_xor_slip(kind, a, b) ==
    CASE kind = "and" -> and(a, b)
      [] kind = "or"  -> or(a, b)
      [] kind = "xor" -> or(a, b)
      [] kind = "buf" -> a
      [] kind = "inv" -> not(a)

\* The function of a gate: and / or / xor / buf / inv of models::gates
gate_func(kind, a, b) ==
    CASE kind = "and" -> and(a, b)
      [] kind = "or"  -> or(a, b)
      [] kind = "xor" -> xor(a, b)
      [] kind = "buf" -> a
      [] kind = "inv" -> not(a)

\* Whether a gate's update reports a change: the value written to its output
\* differs from the value the output held.
gate_changed(old_value, new_value) == old_value # new_value

\* Updateable::update for a gate: self.z.replace($func(self.a.value(), ...))
gate_update(c, v) ==
    LET a == v[c.ins[1]]
        b == IF Len(c.ins) > 1 THEN v[c.ins[2]] ELSE vU
        z == c.outs[1]
        new_value == gate_func(c.kind, a, b)
    IN  [ v |-> [ v EXCEPT ![z] = new_value ],
          changed |-> gate_changed(v[z], new_value) ]

\* A tri-state buffer that reports no change when it releases its output.
tri_changed_misses_release(old_value, new_value) ==
    old_value # new_value /\ new_value # vZ

\* TriBuffer::update's report: old_value != new_value
tri_changed(old_value, new_value) == old_value # new_value

\* TriBuffer::update, with the ports a, s (ins) and z (outs)
tri_update(c, v) ==
    LET a == v[c.ins[1]]
        s == v[c.ins[2]]
        z == c.outs[1]
        new_value == IF is_1H(s) THEN a ELSE IF is_0L(s) THEN vZ ELSE vX
    IN  [ v |-> [ v EXCEPT ![z] = new_value ],
          changed |-> tri_changed(v[z], new_value) ]

\* A signal update that writes the resolved value to its first load only.
update_component_first_load_only(c, v) ==
    IF c.kind = "signal"
    THEN LET u == signal_update(c.ins, SubSeq(c.outs, 1, 1), v,
                                [ p \in DOMAIN v |-> TRUE ])
         IN  [ v |-> u.v, changed |-> u.changed ]
    ELSE IF c.kind = "tri" THEN tri_update(c, v)
    ELSE gate_update(c, v)

\* dyn Updateable::update: a signal (all of whose ports are held by the
\* circuit's owner, hence live), a tri-state buffer or a gate
update_component(c, v) ==
    IF c.kind = "signal"
    THEN LET u == signal_update(c.ins, c.outs, v, [ p \in DOMAIN v |-> TRUE ])
         IN  [ v |-> u.v, changed |-> u.changed ]
    ELSE IF c.kind = "tri" THEN tri_update(c, v)
    ELSE gate_update(c, v)

RECURSIVE tick_fold_lazy(_, _, _, _, _, _, _)
tick_fold_lazy(list, cm, i, v, acc, cs, rs) ==
    IF i > Len(list) THEN [ v |-> v, ret |-> acc, calls |-> cs, reports |-> rs ]
    ELSE IF acc THEN tick_fold_lazy(list, cm, i + 1, v, acc, cs, rs)
    ELSE LET u == update_component(cm[list[i]], v)
         IN  tick_fold_lazy(list, cm, i + 1, u.v, u.changed,
                            Append(cs, list[i]), Append(rs, u.changed))

\* A tick folding with the short-circuit acc || u.update().
tick_short_circuit(list, cm, v) ==
    tick_fold_lazy(list, cm, 1, v, FALSE, << >>, << >>)

RECURSIVE tick_fold(_, _, _, _, _, _, _)
\* the fold of Circuit::tick from the i-th updater on: acc | u.update()
tick_fold(list, cm, i, v, acc, cs, rs) ==
    IF i > Len(list) THEN [ v |-> v, ret |-> acc, calls |-> cs, reports |-> rs ]
    ELSE LET u == update_component(cm[list[i]], v)
         IN  tick_fold(list, cm, i + 1, u.v, acc \/ u.changed,
                       Append(cs, list[i]), Append(rs, u.changed))

\* Circuit::tick on the updater list, with the components cm and port values v
tick(list, cm, v) == tick_fold(list, cm, 1, v, FALSE, << >>, << >>)

Signal(ins, outs) == [ kind |-> "signal", ins |-> ins, outs |-> outs ]

Gate(kind, ins, z) == [ kind |-> kind, ins |-> ins, outs |-> << z >> ]

\* Circuit::add_updater, each component of the network once, in any order
add_updater(c) ==
    /\ phase = "build"
    /\ c \notin Range(updater)
    /\ updater' = Append(updater, c)
    /\ phase' = IF Len(updater) + 1 = Cardinality(DOMAIN comps)
                THEN "ready" ELSE "build"
    /\ UNCHANGED << calc, pv, sigvars, comps, ret, calls, reports, ticks, applied >>

\* One iteration of the caller's loop
\*   while circuit.tick() && cycles < cap { cycles += 1 }
\* ticks is the number of tick calls made so far (cycles before the call).
TickLoop(cap) ==
    /\ phase \in { "ready", "run" }
    /\ LET t == tick(updater, comps, pv)
       IN  /\ pv' = t.v
           /\ ret' = t.ret
           /\ calls' = t.calls
           /\ reports' = t.reports
           /\ phase' = IF ~t.ret THEN "stable"
                       ELSE IF ticks < cap THEN "run" ELSE "capped"
    /\ ticks' = ticks + 1
    /\ UNCHANGED << calc, sigvars, comps, updater, applied >>

\* The iteration cap of the caller's loop (circuit.rs suggests an arbitrary 100)
MaxTicks == 6

Tick == TickLoop(MaxTicks)

-----------------------------------------------------------------------------
(* Acyclic networks: two switches x and y, a two-input gate g1 on (x, y)   *)
(* and a gate g2 on (g1.z, y) or, for an inverter or buffer, on g1.z.      *)

ChainPorts == { "x", "y", "g1a", "g1b", "g1z", "g2a", "g2b", "g2z" }

Gate1Kinds == { "and", "or", "xor" }

Gate2Kinds == { "and", "xor", "inv", "buf" }

\* The values the switches are set to
SwitchValues == { v0, v1, vH }

OneInput(kind) == kind \in { "inv", "buf" }

ChainComps(k1, k2) ==
    [ c \in { "sx", "sy", "sm", "g1", "g2" } |->
        CASE c = "sx" -> Signal(<< "x" >>, << "g1a" >>)
          [] c = "sy" -> Signal(<< "y" >>, IF OneInput(k2) THEN << "g1b" >>
                                            ELSE << "g1b", "g2b" >>)
          [] c = "sm" -> Signal(<< "g1z" >>, << "g2a" >>)
          [] c = "g1" -> Gate(k1, << "g1a", "g1b" >>, "g1z")
          [] c = "g2" -> Gate(k2, IF OneInput(k2) THEN << "g2a" >>
                                  ELSE << "g2a", "g2b" >>, "g2z") ]

InitCircuit ==
    /\ calc = IdleCalc
    /\ SignalIdle
    /\ \E k1 \in Gate1Kinds, k2 \in Gate2Kinds : comps = ChainComps(k1, k2)
    /\ \E x \in SwitchValues, y \in SwitchValues :
          pv = [ p \in ChainPorts |->
                   IF p = "x" THEN x ELSE IF p = "y" THEN y ELSE vU ]
    /\ updater = << >>
    /\ ret = FALSE
    /\ calls = << >>
    /\ reports = << >>
    /\ phase = "build"
    /\ ticks = 0
    /\ applied = 0

NextCircuit ==
    \/ \E c \in DOMAIN comps : add_updater(c)
    \/ Tick

SpecCircuit == InitCircuit /\ [][NextCircuit]_vars

-----------------------------------------------------------------------------
(* The inverter loop: one Inverter whose output z drives a signal whose    *)
(* only load is the inverter's own input a.  The owner may write the       *)
(* output port before the first tick and again when a tick has returned    *)
(* false.                                                                  *)

LoopPorts == { "a", "z" }

LoopComps ==
    [ c \in { "inv", "sig" } |->
        IF c = "inv" THEN Gate("inv", << "a" >>, "z")
                     ELSE Signal(<< "z" >>, << "a" >>) ]

InitLoop ==
    /\ calc = IdleCalc
    /\ SignalIdle
    /\ comps = LoopComps
    /\ pv = [ p \in LoopPorts |-> vU ]
    /\ updater = << >>
    /\ ret = FALSE
    /\ calls = << >>
    /\ reports = << >>
    /\ phase = "build"
    /\ ticks = 0
    /\ applied = 0

\* how many times the owner of a circuit writes its inputs
MaxApplied == 2

\* inv.z.replace(value): Port::replace on the inverter's Output port
replace_z(value) ==
    /\ phase \in { "build", "ready", "stable" }
    /\ applied < MaxApplied
    /\ pv' = [ pv EXCEPT !["z"] = value ]
    /\ applied' = applied + 1
    /\ ticks' = 0
    /\ phase' = IF phase = "stable" THEN "ready" ELSE phase
    /\ UNCHANGED << calc, sigvars, comps, updater, ret, calls, reports >>

NextLoop ==
    \/ \E c \in DOMAIN comps : add_updater(c)
    \/ \E value \in Ieee1164 : replace_z(value)
    \/ Tick

SpecLoop == InitLoop /\ [][NextLoop]_vars

-----------------------------------------------------------------------------
(* The full adder of examples/fulladder.rs: two half adders and an OR.     *)

AdderPorts ==
    { "x", "y", "c",
      "and1.a", "and1.b", "and1.z", "xor1.a", "xor1.b", "xor1.z",
      "and2.a", "and2.b", "and2.z", "xor2.a", "xor2.b", "xor2.z",
      "or.a", "or.b", "or.z", "cout", "s" }

AdderComps ==
    [ c \in { "s_x", "s_y", "s_ha1_o", "s_ha1_ha2", "s_cin_ha2", "s_ha2_o",
              "s_or_cout", "s_ha_s", "and1", "and2", "xor1", "xor2", "or" } |->
        CASE c = "s_x"       -> Signal(<< "x" >>, << "and1.a", "xor1.a" >>)
          [] c = "s_y"       -> Signal(<< "y" >>, << "and1.b", "xor1.b" >>)
          [] c = "s_ha1_o"   -> Signal(<< "and1.z" >>, << "or.a" >>)
          [] c = "s_ha1_ha2" -> Signal(<< "xor1.z" >>, << "and2.a", "xor2.a" >>)
          [] c = "s_cin_ha2" -> Signal(<< "c" >>, << "and2.b", "xor2.b" >>)
          [] c = "s_ha2_o"   -> Signal(<< "and2.z" >>, << "or.b" >>)
          [] c = "s_or_cout" -> Signal(<< "or.z" >>, << "cout" >>)
          [] c = "s_ha_s"    -> Signal(<< "xor2.z" >>, << "s" >>)
          [] c = "and1"      -> Gate("and", << "and1.a", "and1.b" >>, "and1.z")
          [] c = "and2"      -> Gate("and", << "and2.a", "and2.b" >>, "and2.z")
          [] c = "xor1"      -> Gate("xor", << "xor1.a", "xor1.b" >>, "xor1.z")
          [] c = "xor2"      -> Gate("xor", << "xor2.a", "xor2.b" >>, "xor2.z")
          [] c = "or"        -> Gate("or", << "or.a", "or.b" >>, "or.z") ]

\* the add_updater calls of the example, in their order
AdderOrder ==
    << "s_x", "s_y", "s_ha1_o", "s_ha1_ha2", "s_cin_ha2", "s_ha2_o",
       "s_or_cout", "s_ha_s", "and1", "and2", "xor1", "xor2", "or" >>

\* the values of the example's VALUES rows
Bits == { v0, v1 }

\* the cap of the example's loop: while circuit.tick() && cycle_count < 10
CycleCap == 10

InitAdder ==
    /\ calc = IdleCalc
    /\ SignalIdle
    /\ comps = AdderComps
    /\ pv = [ p \in AdderPorts |-> vU ]
    /\ updater = AdderOrder
    /\ ret = FALSE
    /\ calls = << >>
    /\ reports = << >>
    /\ phase = "idle"
    /\ ticks = 0
    /\ applied = 0

\* x.replace(triple[0]); y.replace(triple[1]); c.replace(triple[2]) on a
\* fresh network or on one whose last tick returned false
set_inputs(x, y, c) ==
    /\ phase \in { "idle", "stable" }
    /\ applied < MaxApplied
    /\ pv' = [ pv EXCEPT !["x"] = x, !["y"] = y, !["c"] = c ]
    /\ applied' = applied + 1
    /\ ticks' = 0
    /\ phase' = "ready"
    /\ UNCHANGED << calc, sigvars, comps, updater, ret, calls, reports >>

AdderTick == TickLoop(CycleCap)

NextAdder ==
    \/ \E x \in Bits, y \in Bits, c \in Bits : set_inputs(x, y, c)
    \/ AdderTick

SpecAdder == InitAdder /\ [][NextAdder]_vars

-----------------------------------------------------------------------------------------------------------------------------------------------------
(* A bus: two tri-state buffers t1 and t2, each with a data switch and an  *)
(* enable switch, drive one signal whose load is o; the enable of t1       *)
(* passes through the buffer b1.  The owner goes on calling tick after a   *)
(* tick has returned false.                                                *)

BusPorts ==
    { "d1", "e1", "d2", "e2", "b1.a", "b1.z", "t1.a", "t1.s", "t1.z", "t2.a",
      "t2.s", "t2.z", "o" }

TriBuffer(a, s, z) == [ kind |-> "tri", ins |-> << a, s >>, outs |-> << z >> ]

BusComps ==
    [ c \in { "s_d1", "s_e1", "s_b1", "s_d2", "s_e2", "b1", "t1", "t2", "bus" } |->
        CASE c = "s_d1" -> Signal(<< "d1" >>, << "t1.a" >>)
          [] c = "s_e1" -> Signal(<< "e1" >>, << "b1.a" >>)
          [] c = "s_b1" -> Signal(<< "b1.z" >>, << "t1.s" >>)
          [] c = "s_d2" -> Signal(<< "d2" >>, << "t2.a" >>)
          [] c = "s_e2" -> Signal(<< "e2" >>, << "t2.s" >>)
          [] c = "b1"   -> Gate("buf", << "b1.a" >>, "b1.z")
          [] c = "t1"   -> TriBuffer("t1.a", "t1.s", "t1.z")
          [] c = "t2"   -> TriBuffer("t2.a", "t2.s", "t2.z")
          [] c = "bus"  -> Signal(<< "t1.z", "t2.z" >>, << "o" >>) ]

\* registration orders: in the direction of the data, against it, and mixed
BusOrders ==
    { << "s_d1", "s_e1", "b1", "s_b1", "s_d2", "s_e2", "t1", "t2", "bus" >>,
      << "bus", "t2", "t1", "s_e2", "s_d2", "s_b1", "b1", "s_e1", "s_d1" >>,
      << "t1", "bus", "s_b1", "s_e1", "s_d1", "b1", "t2", "s_e2", "s_d2" >>,
      << "bus", "s_d1", "s_e1", "s_d2", "s_e2", "s_b1", "b1", "t1", "t2" >> }

\* the values of the data switches
BusData == { v0, v1 }

\* the values of the enable switches
BusEnables == { v0, v1, vH, vZ }

InitBus ==
    /\ calc = IdleCalc
    /\ SignalIdle
    /\ comps = BusComps
    /\ \E d1 \in BusData, e1 \in BusEnables, d2 \in BusData, e2 \in BusEnables :
          pv = [ p \in BusPorts |->
                   CASE p = "d1" -> d1 [] p = "e1" -> e1
                     [] p = "d2" -> d2 [] p = "e2" -> e2
                     [] OTHER -> vU ]
    /\ updater \in BusOrders
    /\ ret = FALSE
    /\ calls = << >>
    /\ reports = << >>
    /\ phase = "ready"
    /\ ticks = 0
    /\ applied = 0

\* how many more times tick is called after it has returned false
MaxSettled == 3

\* circuit.tick() called again after a tick has returned false; applied
\* counts these calls
TickSettled ==
    /\ phase = "stable"
    /\ applied < MaxSettled
    /\ LET t == tick(updater, comps, pv)
       IN  /\ pv' = t.v
           /\ ret' = t.ret
           /\ calls' = t.calls
           /\ reports' = t.reports
    /\ applied' = applied + 1
    /\ UNCHANGED << calc, sigvars, comps, updater, phase, ticks >>

NextBus ==
    \/ Tick
    \/ TickSettled

SpecBus == InitBus /\ [][NextBus]_vars

-----------------------------------------------------------------------------
(* Networks nobody has written to: the chains above with their switches    *)
(* left as created, and a gate of each kind whose output is wired back to  *)
(* its own (first) input.                                                  *)

GateKinds == { "and", "or", "xor", "buf", "inv" }

FeedbackComps(k) ==
    [ c \in IF OneInput(k) THEN { "sf", "g1" } ELSE { "sx", "sf", "g1" } |->
        CASE c = "sx" -> Signal(<< "x" >>, << "g1b" >>)
          [] c = "sf" -> Signal(<< "g1z" >>, << "g1a" >>)
          [] c = "g1" -> Gate(k, IF OneInput(k) THEN << "g1a" >>
                                 ELSE << "g1a", "g1b" >>, "g1z") ]

FreshNetworks ==
    { ChainComps(k1, k2) : k1 \in Gate1Kinds, k2 \in Gate2Kinds }
        \cup { FeedbackComps(k) : k \in GateKinds }

InitFresh ==
    /\ calc = IdleCalc
    /\ SignalIdle
    /\ comps \in FreshNetworks
    /\ pv = [ p \in ChainPorts |-> vU ]
    /\ updater = << >>
    /\ ret = FALSE
    /\ calls = << >>
    /\ reports = << >>
    /\ phase = "build"
    /\ ticks = 0
    /\ applied = 0

NextFresh ==
    \/ \E c \in DOMAIN comps : add_updater(c)
    \/ Tick
    \/ TickSettled

SpecFresh == InitFresh /\ [][NextFresh]_vars

-----------------------------------------------------------------------------
(* The scalar operators applied to every pair of values.                   *)

InitLogic ==
    /\ calc \in [ a : Ieee1164, b : Ieee1164, op : { "none" }, r : { vU } ]
    /\ pv = << >>
    /\ SignalIdle
    /\ CircuitIdle

Apply(name, r) ==
    /\ calc.op = "none"
    /\ calc' = [ calc EXCEPT !.op = name, !.r = r ]
    /\ UNCHANGED << pv, sigvars, circvars >>

ApplyAnd == Apply("and", and(calc.a, calc.b))

ApplyOr == Apply("or", or(calc.a, calc.b))

ApplyXor == Apply("xor", xor(calc.a, calc.b))

ApplyNot == Apply("not", not(calc.a))

ApplyResolve == Apply("resolve", resolve(calc.a, calc.b))

NextLogic == ApplyAnd \/ ApplyOr \/ ApplyXor \/ ApplyNot \/ ApplyResolve

SpecLogic == InitLogic /\ [][NextLogic]_vars

-----------------------------------------------------------------------------
(* C1: scalar resolve is commutative: whenever resolve has been applied to *)
(* (a, b), the result equals resolve applied to the swapped pair (b, a).    *)
C1_ResolveCommutative ==
    calc.op = "resolve" =>
        calc.r = resolve(calc.b, calc.a)

\* resolve has been applied to two different drivers of different strength
C1_Witness ==
    /\ calc.op = "resolve"
    /\ calc.a = v0
    /\ calc.b = vH
    /\ calc.r = v0

(* C2 as stated: high impedance is the identity of resolve for all nine    *)
(* values, don't-care included.                                            *)
C2_HighImpedanceIdentityAll ==
    (calc.op = "resolve" /\ calc.b = vZ) => calc.r = calc.a

(* C2 as amended: resolving with high impedance returns the other value    *)
(* for every value except don't-care, for which the result is X.           *)
C2_HighImpedanceIdentity ==
    (calc.op = "resolve" /\ calc.b = vZ) =>
        calc.r = (IF calc.a = vD THEN vX ELSE calc.a)

\* a weak driver has been resolved against high impedance and survived
C2_Witness ==
    /\ calc.op = "resolve"
    /\ calc.a = vL
    /\ calc.b = vZ
    /\ calc.r = vL

\* The reference of C3, written from the value classes rather than the tables.
RefAnd(a, b) ==
    IF is_0L(a) \/ is_0L(b) THEN v0
    ELSE IF is_1H(a) /\ is_1H(b) THEN v1
    ELSE IF a = vU \/ b = vU THEN vU
    ELSE vX

RefOr(a, b) ==
    IF is_1H(a) \/ is_1H(b) THEN v1
    ELSE IF is_0L(a) /\ is_0L(b) THEN v0
    ELSE IF a = vU \/ b = vU THEN vU
    ELSE vX

RefXor(a, b) ==
    IF a = vU \/ b = vU THEN vU
    ELSE IF (is_0L(a) \/ is_1H(a)) /\ (is_0L(b) \/ is_1H(b))
         THEN (IF is_1H(a) = is_1H(b) THEN v0 ELSE v1)
    ELSE vX

(* C3: for all 81 pairs the scalar AND, OR and XOR ignore drive strength   *)
(* and agree with the reference: AND is 0 if either operand is 0/L, else 1 *)
(* if both are 1/H, else U if either is U, else X; OR dually; XOR is U if  *)
(* either is U, else the parity of two 0/L/1/H operands, else X.           *)
C3_TruthTables ==
    /\ calc.op = "and" => calc.r = RefAnd(calc.a, calc.b)
    /\ calc.op = "or"  => calc.r = RefOr(calc.a, calc.b)
    /\ calc.op = "xor" => calc.r = RefXor(calc.a, calc.b)

\* AND of a weak zero and a weak one has been evaluated to a strong zero
C3_Witness ==
    /\ calc.op = "and"
    /\ calc.a = vL
    /\ calc.b = vH
    /\ calc.r = v0

-----------------------------------------------------------------------------
\* The claim-side reference of the fold: the resolution of the first n values
RECURSIVE RefResolved(_, _)
RefResolved(vals, n) ==
    IF n = 1 THEN vals[1]
    ELSE resolve(RefResolved(vals, n - 1), vals[n])

LiveDrivers(s) == LET Live(p) == alive[p] IN SelectSeq(input_ports[s], Live)

LiveLoads(s) == LET Live(p) == alive[p] IN SelectSeq(output_ports[s], Live)

DriverValues(s) == [ i \in DOMAIN LiveDrivers(s) |-> pv[LiveDrivers(s)[i]] ]

(* C4: a step that updates a signal with at least one live driver leaves   *)
(* every live load of the signal at one value: the left-to-right fold of   *)
(* resolve over the values the live drivers held before the update, in     *)
(* connection order, seeded with the first driver's value.                 *)
C4_UpdateResolves ==
    [][ \A s \in Signals :
          (last'.op = "update" /\ last'.s = s /\ LiveDrivers(s) # << >>) =>
              \A i \in DOMAIN LiveLoads(s) :
                  pv'[LiveLoads(s)[i]] =
                      RefResolved(DriverValues(s), Len(LiveDrivers(s))) ]_vars

\* an update has resolved three drivers (weak one, strong zero, in/out port)
\* onto both loads
C4_Witness ==
    /\ last.op = "update"
    /\ last.s = "s1"
    /\ input_ports["s1"] = << "a", "b", "io" >>
    /\ output_ports["s1"] = << "o", "io" >>
    /\ pv["a"] = vH
    /\ pv["b"] = v0
    /\ pv["io"] = v0
    /\ pv["o"] = v0

(* C9 as stated: a connect of a port that some signal already holds a      *)
(* connector of returns Err(AlreadyConnected).                             *)
C9_SecondConnectFails ==
    (last.op = "connect" /\ last.was) => last.res = "AlreadyConnected"

Count(list, p) == Cardinality({ i \in DOMAIN list : list[i] = p })

(* C10: connector deduplication: no signal holds two connectors of one     *)
(* port in its driver set or in its load set, and right after a connect of *)
(* a port the signal holds exactly one connector of it in each set its     *)
(* direction belongs to (both sets for an InOut port).                     *)
C10_ConnectorsDeduplicated ==
    /\ \A s \in Signals, p \in Ports :
          /\ Count(input_ports[s], p) <= 1
          /\ Count(output_ports[s], p) <= 1
    /\ (last.op = "connect" /\ last.res = "Ok") =>
          /\ Count(input_ports[last.s], last.p) =
                (IF PortDir[last.p] \in { "Output", "InOut" } THEN 1 ELSE 0)
          /\ Count(output_ports[last.s], last.p) =
                (IF PortDir[last.p] \in { "Input", "InOut" } THEN 1 ELSE 0)

\* the InOut port has been connected again to the signal that already held it
C10_Witness ==
    /\ last.op = "connect"
    /\ last.s = "s1"
    /\ last.p = "io"
    /\ last.was
    /\ last.res = "Ok"
    /\ Count(input_ports["s1"], "io") = 1
    /\ Count(output_ports["s1"], "io") = 1

-----------------------------------------------------------------------------
Ticked == phase \in { "run", "stable", "capped" }

(* C5: a tick calls update on every registered component exactly once, in  *)
(* the order of the add_updater calls, also after an earlier component has *)
(* reported a change, and returns true exactly when at least one of those  *)
(* calls reported a change.                                                *)
C5_TickUpdatesAllInOrder ==
    Ticked =>
        /\ calls = updater
        /\ Len(reports) = Len(updater)
        /\ ret = (\E i \in DOMAIN reports : reports[i])

\* a tick in which the first component reported a change and the remaining
\* four were still called, the last one reporting none
C5_Witness ==
    /\ Ticked
    /\ Len(updater) = 5
    /\ calls = updater
    /\ reports[1]
    /\ ~reports[5]
    /\ ret

\* The values a topological-order evaluation of the network gives its ports
TopoValues ==
    LET x   == pv["x"]
        y   == pv["y"]
        k1  == comps["g1"].kind
        k2  == comps["g2"].kind
        g1z == gate_func(k1, x, y)
        g2b == IF OneInput(k2) THEN vU ELSE y
        g2z == gate_func(k2, g1z, g2b)
    IN  [ p \in ChainPorts |->
            CASE p = "x"   -> x
              [] p = "y"   -> y
              [] p = "g1a" -> x
              [] p = "g1b" -> y
              [] p = "g1z" -> g1z
              [] p = "g2a" -> g1z
              [] p = "g2b" -> g2b
              [] p = "g2z" -> g2z ]

(* C7: for every network of the acyclic family, every pair of switch       *)
(* values and every registration order, the loop of repeated ticks never   *)
(* runs into its iteration cap (a tick returns false first), and when a    *)
(* tick has returned false the ports hold the values of a topological-     *)
(* order evaluation.                                                       *)
C7_AcyclicConverges ==
    /\ phase # "capped"
    /\ phase = "stable" => (~ret /\ pv = TopoValues)

\* a network registered against the data flow (gates before the signals that
\* feed them) has stabilised on the topological values
C7_Witness ==
    /\ phase = "stable"
    /\ updater = << "g2", "sm", "g1", "sy", "sx" >>
    /\ comps["g1"].kind = "xor"
    /\ comps["g2"].kind = "xor"
    /\ pv["x"] = v1
    /\ pv["y"] = v0
    /\ pv["g1z"] = v1
    /\ pv["g2z"] = v1

-----------------------------------------------------------------------------
\* the number of inputs of the adder that are a strong one
Ones == Cardinality({ p \in { "x", "y", "c" } : pv[p] = v1 })

RefSum == IF Ones % 2 = 1 THEN v1 ELSE v0

RefCarry == IF Ones >= 2 THEN v1 ELSE v0

FreshAllOnes ==
    /\ applied = 1
    /\ pv["x"] = v1
    /\ pv["y"] = v1
    /\ pv["c"] = v1

(* C6: in the full adder registered in the example's order, for every      *)
(* input triple of {0,1}^3 written to a fresh network or to one that has   *)
(* stabilised on an earlier triple, the tick loop ends because a tick      *)
(* returns false (never on the cap of 10), and then sum = x XOR y XOR cin  *)
(* and carry = majority(x, y, cin); for (1,1,1) on a fresh network at most *)
(* 4 ticks are made, and the 4th leaves the loop stable with (sum, carry)  *)
(* = (1, 1).                                                               *)
C6_FullAdderConverges ==
    /\ phase # "capped"
    /\ phase = "stable" =>
          /\ ~ret
          /\ pv["s"] = RefSum
          /\ pv["cout"] = RefCarry
    /\ FreshAllOnes =>
          /\ ticks <= 4
          /\ ticks = 4 => (phase = "stable" /\ pv["s"] = v1 /\ pv["cout"] = v1)

\* the fresh network has stabilised on (1,1,1) with the fourth tick
C6_Witness ==
    /\ FreshAllOnes
    /\ phase = "stable"
    /\ ticks = 4
    /\ pv["s"] = v1
    /\ pv["cout"] = v1

-----------------------------------------------------------------------------
\* the value fed back to the inverter's input is a strong zero or one
LoopCarriesStrong == is_01(pv["a"])

(* C8: in the inverter loop, for both registration orders, a tick made     *)
(* while the inverter's input holds a strong 0 or 1 returns true and       *)
(* leaves a strong 0 or 1 on it again, so from then on every tick returns  *)
(* true and the tick loop is never left as stable: it ends on the cap.     *)
C8_OscillationNeverStable ==
    [][ /\ (ticks' = ticks + 1 /\ LoopCarriesStrong) =>
               (ret' /\ LoopCarriesStrong')
        /\ LoopCarriesStrong' => phase' # "stable" ]_vars

\* the loop has oscillated until the caller's cap ended the tick loop
C8_Witness ==
    /\ phase = "capped"
    /\ ret
    /\ LoopCarriesStrong
    /\ is_01(pv["z"])
    /\ ticks = MaxTicks + 1
    /\ updater = << "sig", "inv" >>

-----------------------------------------------------------------------------
(* C11 as stated: is_connected is true after a successful connect of the   *)
(* port and false again after a disconnect of it.                          *)
C11_IsConnectedTracksConnection ==
    /\ (last.op = "connect" /\ last.res = "Ok") => is_connected(last.p)
    /\ last.op = "disconnect" => ~is_connected(last.p)

\* the port has no connector in the signal's driver list or load list
Absent(s, p) ==
    /\ p \notin Range(input_ports[s])
    /\ p \notin Range(output_ports[s])

\* the port values with the value of port p exchanged for w
WithValue(p, w) == [ pv EXCEPT ![p] = w ]

\* the step is update(s), and every port but p ends with the value it would
\* have ended with whatever value p had held
UpdateIgnores(s, p) ==
    \A w \in Ieee1164 \ { pv[p] } :
        LET u == signal_update(input_ports[s], output_ports[s],
                               WithValue(p, w), alive).v
        IN  \A q \in Ports \ { p } : pv'[q] = u[q]

(* C12: a disconnect of a port from a signal leaves the signal without a   *)
(* connector of the port; as long as only replace and update follow, it    *)
(* stays without one, and every update of the signal leaves the port's     *)
(* value alone and gives every other port the value it would have got      *)
(* whatever the disconnected port held.                                    *)
C12_DisconnectStopsPropagation ==
    [][ \A s \in Signals, p \in Ports :
          /\ (last'.op = "disconnect" /\ last'.s = s /\ last'.p = p) =>
                Absent(s, p)'
          /\ (Absent(s, p) /\ last'.op \in { "replace", "update" }) =>
                Absent(s, p)'
          /\ (last'.op = "update" /\ last'.s = s /\ Absent(s, p) /\ alive[p]) =>
                (pv'[p] = pv[p] /\ UpdateIgnores(s, p)) ]_vars

\* the in/out port that had driven a weak one onto the load has just been
\* disconnected from the signal, which keeps its other driver and its load
C12_Witness ==
    /\ last.op = "disconnect"
    /\ last.s = "s1"
    /\ last.p = "io"
    /\ last.was
    /\ Absent("s1", "io")
    /\ input_ports["s1"] = << "a" >>
    /\ output_ports["s1"] = << "o" >>
    /\ pv["io"] = vH
    /\ pv["o"] = vH

(* C13: an update of a signal without a live driver leaves the value of    *)
(* every port as it was, however often it is repeated.                     *)
C13_NoDriverKeepsLoads ==
    [][ \A s \in Signals :
          (last'.op = "update" /\ last'.s = s /\ LiveDrivers(s) = << >>) =>
              pv' = pv ]_vars

\* a signal with a load and no driver has been updated and the load still
\* holds its initial value
C13_Witness ==
    /\ last.op = "update"
    /\ last.s = "s1"
    /\ input_ports["s1"] = << >>
    /\ output_ports["s1"] = << "o" >>
    /\ pv["o"] = vD

(* C14: an update of a signal removes every connector of a dropped port    *)
(* from both lists, keeps the connectors of the live ports in their order, *)
(* and gives every port the value it would have got whatever the dropped   *)
(* port had last held.                                                     *)
C14_DroppedPortsPruned ==
    [][ \A s \in Signals :
          (last'.op = "update" /\ last'.s = s) =>
              /\ input_ports'[s] = LiveDrivers(s)
              /\ output_ports'[s] = LiveLoads(s)
              /\ \A p \in Ports : ~alive[p] => UpdateIgnores(s, p) ]_vars

\* an update has pruned the dropped driver b, whose strong zero would have
\* overridden the weak one the live driver a puts on the load
C14_Witness ==
    /\ last.op = "update"
    /\ last.s = "s1"
    /\ last.was
    /\ ~alive["b"]
    /\ pv["b"] = v0
    /\ input_ports["s1"] = << "a" >>
    /\ output_ports["s1"] = << "o" >>
    /\ pv["a"] = vH
    /\ pv["o"] = vH

C16_SetsDisjointAll ==
    \A s \in Signals, p \in Ports :
        ~(p \in Range(input_ports[s]) /\ p \in Range(output_ports[s]))

(* C16 as amended: no Input or Output port has a connector in both lists   *)
(* of a signal (an Output port only in the driver list, an Input port only *)
(* in the load list), and a connected InOut port has one in both.          *)
C16_SetsDisjointUnlessInOut ==
    /\ \A s \in Signals, p \in Ports :
          /\ p \in Range(input_ports[s]) => PortDir[p] \in { "Output", "InOut" }
          /\ p \in Range(output_ports[s]) => PortDir[p] \in { "Input", "InOut" }
    /\ (last.op = "connect" /\ last.res = "Ok" /\ PortDir[last.p] = "InOut") =>
          /\ last.p \in Range(input_ports[last.s])
          /\ last.p \in Range(output_ports[last.s])

\* an Input port has been connected as a load of the signal next to an
\* InOut port that is both its driver and its load
C16_Witness ==
    /\ last.op = "connect"
    /\ last.res = "Ok"
    /\ last.p = "o"
    /\ last.s = "s1"
    /\ input_ports["s1"] = << "io" >>
    /\ output_ports["s1"] = << "io", "o" >>
    /\ ~last.was

\* The widths of the harness ports when they carry LogicVectors.
PortWidth == [ p \in Ports |-> IF p = "b" THEN 8 ELSE 4 ]

\* the ports a signal holds a connector of
Connected(s) == Range(input_ports[s]) \cup Range(output_ports[s])

(* C17 as stated: a connect of a port whose width differs from the width   *)
(* of a port the signal already holds returns Err(MismatchWidth) and       *)
(* leaves the signal unchanged, so a signal never holds connectors of two  *)
(* ports of different width.                                               *)
C17_WidthMismatchRejected ==
    /\ \A s \in Signals : \A p \in Connected(s), q \in Connected(s) :
          PortWidth[p] = PortWidth[q]
    /\ ( /\ last.op = "connect"
         /\ \E q \in Connected(last.s) : PortWidth[q] # PortWidth[last.p] ) =>
            last.res = "MismatchWidth"

-----------------------------------------------------------------------------
(* LogicVector: nine u128 masks, one per Ieee1164 value, and a width.  A   *)
(* u128 is the set of the indices of its one bits.                         *)

\* the number of bits of a u128
u128_BITS == 128

\* std::u128::MAX
u128_MAX == 0..(u128_BITS - 1)

\* the values of a u8
u8_MAX == 255

Max(x) == CHOOSE i \in x : \A j \in x : j <= i

\* u128::leading_zeros
leading_zeros(value) ==
    IF value = { } THEN u128_BITS ELSE (u128_BITS - 1) - Max(value)

\* x >> n
Shr(x, n) == { i - n : i \in { j \in x : j >= n } }

\* !x
Not128(x) == u128_MAX \ x

None == [ tag |-> "None" ]

Some(x) == [ tag |-> "Some", val |-> x ]

Ok(x) == [ tag |-> "Ok", val |-> x ]

Err(e) == [ tag |-> "Err", val |-> e ]

\* the call panicked
Panic == [ tag |-> "Panic" ]

\* A width mask that also covers the bit at index width.
mask_from_width_one_more(width) ==
    IF width # 128 THEN 0..width ELSE u128_MAX

\* mask_from_width: (1 << width) - 1, or u128::MAX for a width of 128
mask_from_width(width) ==
    IF width # 128 THEN 0..(width - 1) ELSE u128_MAX

\* A width test that lets a width of zero through.
assert_width_allows_zero(width) == width <= 128

\* assert_width
assert_width(width) == width # 0 /\ width <= 128

\* Masks::default()
Masks_default == [ m \in Ieee1164 |-> { } ]

\* the order in which Masks::iter visits the masks
MasksOrder == << vU, vX, v1, v0, vW, vH, vL, vZ, vD >>

\* Masks::get: the value of the first mask, in iteration order, whose bit
\* index is set
Masks_get(masks, index) ==
    IF \A m \in Ieee1164 : index \notin masks[m] THEN Panic
    ELSE LET k == CHOOSE i \in DOMAIN MasksOrder :
                      /\ index \in masks[MasksOrder[i]]
                      /\ \A j \in 1..(i - 1) : index \notin masks[MasksOrder[j]]
         IN  MasksOrder[k]

\* Masks::set
Masks_set(masks, index, value) ==
    [ m \in Ieee1164 |->
        IF m = value THEN masks[m] \cup { index } ELSE masks[m] \ { index } ]

\* what Masks::sanity_check finds at bit d
sanity_at(masks, width, d) ==
    LET n == Cardinality({ m \in Ieee1164 : d \in masks[m] })
    IN  IF n >= 1 /\ d > width THEN "OneAboveWidth"
        ELSE IF n > 1 THEN "MoreThanOne"
        ELSE IF d < width /\ n = 0 THEN "NoOne"
        ELSE "Ok"

\* Masks::sanity_check: the first finding over the 128 bit indices
sanity_check(masks, width) ==
    LET bad == { d \in u128_MAX : sanity_at(masks, width, d) # "Ok" }
    IN  IF bad = { } THEN Ok("unit")
        ELSE LET d == CHOOSE i \in bad : \A j \in bad : i <= j
             IN  Err([ kind |-> sanity_at(masks, width, d), d |-> d ])

\* struct LogicVector
LogicVector(masks, width) == [ masks |-> masks, width |-> width ]

\* LogicVector::from_ieee_value
from_ieee_value(value, width) ==
    IF ~assert_width(width) THEN Panic
    ELSE LogicVector([ Masks_default EXCEPT
                         ![value] = u128_MAX \cap mask_from_width(width) ],
                     width)

\* LogicVector::from_int_value, as the debug build runs it: the shift in
\* mask_from_width overflows for a width above 128 and the debug assertion
\* on sanity_check is compiled in
from_int_value(value, width) ==
    LET zeros == leading_zeros(value)
        masks == [ Masks_default EXCEPT
                     ![v1] = value,
                     ![v0] = Not128(value) \cap mask_from_width(width) ]
    IN  IF assert_width(width) /\ width >= (128 - zeros)
        THEN IF width > 128 \/ sanity_check(masks, width) # Ok("unit")
             THEN Panic
             ELSE Some(LogicVector(masks, width))
        ELSE None

\* LogicVector::with_width
with_width(width) ==
    IF ~assert_width(width) THEN Panic ELSE from_ieee_value(vU, width)

\* A resize_mask that also covers the bits below old.
resize_mask_from_zero(old, new) ==
    IF old >= new THEN Panic ELSE 0..(new - 1)

\* resize_mask of LogicVector::resize
resize_mask(old, new) ==
    IF old >= new THEN Panic
    ELSE IF new = 128 THEN u128_MAX \cap Not128(0..(old - 1))
    ELSE (0..(new - 1)) \cap Not128(0..(old - 1))

\* LogicVector::resize: the vector afterwards (self) and what is returned
resize(lv, new_width, value) ==
    IF ~assert_width(new_width) THEN [ self |-> lv, res |-> Panic ]
    ELSE IF lv.width = new_width THEN [ self |-> lv, res |-> None ]
    ELSE IF lv.width < new_width
    THEN LET mask == resize_mask(lv.width, new_width)
         IN  [ self |-> LogicVector(
                           [ m \in Ieee1164 |->
                               IF m = value THEN lv.masks[m] \cup mask
                                            ELSE lv.masks[m] \cap Not128(mask) ],
                           new_width),
               res  |-> None ]
    ELSE LET mask_nv == resize_mask(new_width, lv.width)
             mask_ov == mask_from_width(new_width)
         IN  [ self |-> LogicVector(
                           [ m \in Ieee1164 |-> lv.masks[m] \cap mask_ov ],
                           new_width),
               res  |-> Some(LogicVector(
                           [ m \in Ieee1164 |->
                               Shr(lv.masks[m] \cap mask_nv, new_width) ],
                           lv.width - new_width)) ]

\* LogicVector::set_width: resize with Uninitialized, the result dropped
set_width(lv, new_width) ==
    LET r == resize(lv, new_width, vU)
    IN  [ self |-> r.self, res |-> IF r.res = Panic THEN Panic ELSE Ok("unit") ]

\* LogicVector::set_all_to
set_all_to(lv, value) ==
    LogicVector([ m \in Ieee1164 |->
                    IF value = m THEN mask_from_width(lv.width) ELSE { } ],
                lv.width)

\* LogicVector::set_int_value
set_int_value(lv, value) ==
    LET r == from_int_value(value, lv.width)
    IN  IF r = Panic THEN [ self |-> lv, res |-> Panic ]
        ELSE IF r = None THEN [ self |-> lv, res |-> Err("unit") ]
        ELSE [ self |-> r.val, res |-> Ok("unit") ]

\* LogicVector::has_ieee1164
has_ieee1164(lv, value) == lv.masks[value] # { }

\* LogicVector::has_UXZ
has_UXZ(lv) ==
    \/ has_ieee1164(lv, vU)
    \/ has_ieee1164(lv, vX)
    \/ has_ieee1164(lv, vW)
    \/ has_ieee1164(lv, vZ)
    \/ has_ieee1164(lv, vD)

\* An as_u128 that reads the mask of the zeros.
as_u128_of_zeros(lv) == IF has_UXZ(lv) THEN None ELSE Some(lv.masks[v0])

\* LogicVector::as_u128
as_u128(lv) == IF has_UXZ(lv) THEN None ELSE Some(lv.masks[v1])

\* LogicVector::get
get(lv, idx) ==
    IF ~(idx < 128) THEN Panic
    ELSE IF idx < lv.width THEN Some(Masks_get(lv.masks, idx))
    ELSE None

\* LogicVector::set: the vector afterwards and whether the call returned
set(lv, idx, value) ==
    IF ~(idx < 128) THEN [ self |-> lv, res |-> Panic ]
    ELSE IF idx < lv.width
    THEN [ self |-> LogicVector(Masks_set(lv.masks, idx, value), lv.width),
           res  |-> Ok("unit") ]
    ELSE [ self |-> lv, res |-> Ok("unit") ]

\* impl From<Vec<Ieee1164>> for LogicVector; v[j] is the element at the
\* zero-based position j - 1, which lands on bit len - j
from_vec(v) ==
    LET len == Len(v)
    IN  IF len > u8_MAX \/ ~assert_width(len) THEN Panic
        ELSE LogicVector(
                 [ m \in Ieee1164 |->
                     { len - j : j \in { k \in 1..len : v[k] = m } } ],
                 len)

\* char::to_ascii_lowercase on the characters used here
to_ascii_lowercase(c) ==
    CASE c = "U" -> "u" [] c = "X" -> "x" [] c = "Z" -> "z" [] c = "W" -> "w"
      [] c = "L" -> "l" [] c = "H" -> "h" [] c = "D" -> "d" [] c = "A" -> "a"
      [] OTHER -> c

\* impl TryFrom<char> for Ieee1164
try_from_char(c) ==
    LET l == to_ascii_lowercase(c)
    IN  CASE l = "u" -> Ok(vU) [] l = "x" -> Ok(vX) [] l = "0" -> Ok(v0)
          [] l = "1" -> Ok(v1) [] l = "z" -> Ok(vZ) [] l = "w" -> Ok(vW)
          [] l = "l" -> Ok(vL) [] l = "h" -> Ok(vH)
          [] l \in { "*", "-", "d" } -> Ok(vD)
          [] OTHER -> Err("unit")

\* char::len_utf8: every character used here is ASCII except e-acute
len_utf8(c) == IF c = "e-acute" THEN 2 ELSE 1

\* str::len, the length in bytes; a string is the sequence of its chars
str_len(s) == Len(s) + Cardinality({ k \in 1..Len(s) : len_utf8(s[k]) = 2 })

\* impl FromStr for LogicVector
from_str(s) ==
    IF str_len(s) > u8_MAX \/ ~assert_width(str_len(s))
    THEN Err("InvalidWidth")
    ELSE LET bad == { k \in 1..Len(s) : try_from_char(s[k]).tag = "Err" }
         IN  IF bad # { }
             THEN Err([ InalidChar |-> s[CHOOSE k \in bad : \A j \in bad : k <= j] ])
             ELSE LET r == from_vec([ k \in 1..Len(s) |-> try_from_char(s[k]).val ])
                  IN  IF r = Panic THEN Panic ELSE Ok(r)

-----------------------------------------------------------------------------------------------------------------------------------------------------
(* A LogicVector under test: it is constructed, then calls are made on it.  *)
(* calc.lv is the vector, calc.op the last call, calc.arg the integer and   *)
(* the width passed to it, calc.r what it returned, calc.int the integer    *)
(* the vector was last built from while no other call has written to it     *)
(* since, and calc.n the number of calls made on the vector.                *)

\* widths passed to the calls: the edges of 1..=128
LvWidths == { 0, 1, 2, 127, 128, 129 }

\* integers passed to the calls, each the set of its one bits
LvInts == { { }, { 0 }, { 1 }, { 126 }, { 0, 127 }, u128_MAX }

\* values written by from_ieee_value, resize, set and set_all_to
LvFills == { v1, vZ }

\* bit indices passed to get and set
LvIdx == { 0, 1, 127, 128 }

\* v repeated n times
Repeat(v, n) == [ k \in 1..n |-> v ]

\* vectors of values handed to From<Vec<Ieee1164>>
LvVecs ==
    { << >>, << v1, vZ, v0 >>, << vZ >> \o Repeat(v1, 127), Repeat(v0, 129),
      Repeat(v0, 256) }

\* strings handed to from_str
LvStrs ==
    { << >>, << "1", "Z", "x", "-" >>, << "1", "a", "0", "q" >>,
      << "H", "l", "1", "0" >>,
      Repeat("0", 127) \o << "e-acute" >>, Repeat("L", 128),
      Repeat("0", 129), Repeat("0", 256) }

\* no vector has been constructed
NoVector == [ tag |-> "NoVector" ]

NoArg == [ value |-> { }, width |-> 0 ]

\* how many calls are made on one vector
MaxCalls == 2

OtherIdle == UNCHANGED << pv, sigvars, circvars >>

\* the state after a constructor ran
Constructed(lv, op, arg, r, int) ==
    /\ calc.op = "none"
    /\ calc' = [ lv |-> lv, op |-> op, arg |-> arg, r |-> r, int |-> int,
                 n |-> 0 ]
    /\ OtherIdle

\* the state after a call on the vector
Called(lv, op, arg, r, int) ==
    /\ calc.lv # NoVector
    /\ calc.n < MaxCalls
    /\ calc' = [ lv |-> lv, op |-> op, arg |-> arg, r |-> r, int |-> int,
                 n |-> calc.n + 1 ]
    /\ OtherIdle

InitVector ==
    /\ calc = [ lv |-> NoVector, op |-> "none", arg |-> NoArg, r |-> None,
                int |-> None, n |-> 0 ]
    /\ pv = << >>
    /\ SignalIdle
    /\ CircuitIdle

\* let lv = LogicVector::from_ieee_value(value, width)
new_from_ieee_value(value, width) ==
    LET r == from_ieee_value(value, width)
    IN  Constructed(IF r = Panic THEN NoVector ELSE r, "from_ieee_value",
                    [ value |-> { }, width |-> width ],
                    IF r = Panic THEN Panic ELSE None, None)

\* let lv = LogicVector::with_width(width)
new_with_width(width) ==
    LET r == with_width(width)
    IN  Constructed(IF r = Panic THEN NoVector ELSE r, "with_width",
                    [ value |-> { }, width |-> width ],
                    IF r = Panic THEN Panic ELSE None, None)

\* let lv = LogicVector::from_int_value(value, width), unwrapped if Some
new_from_int_value(value, width) ==
    LET r == from_int_value(value, width)
    IN  Constructed(IF r.tag = "Some" THEN r.val ELSE NoVector,
                    "from_int_value", [ value |-> value, width |-> width ],
                    r, IF r.tag = "Some" THEN Some(value) ELSE None)

\* let lv: LogicVector = v.into()
new_from_vec(v) ==
    LET r == from_vec(v)
    IN  Constructed(IF r = Panic THEN NoVector ELSE r, "from_vec",
                    [ value |-> { }, width |-> Len(v) ],
                    IF r = Panic THEN Panic ELSE None, None)

\* let lv = s.parse::<LogicVector>(), unwrapped if Ok
new_from_str(s) ==
    LET r == from_str(s)
    IN  Constructed(IF r.tag = "Ok" THEN r.val ELSE NoVector, "from_str",
                    [ value |-> { }, width |-> str_len(s) ],
                    IF r.tag = "Ok" THEN None ELSE r, None)

\* lv.resize(new_width, value)
do_resize(new_width, value) ==
    LET r == resize(calc.lv, new_width, value)
    IN  Called(r.self, "resize",
               [ value |-> { }, width |-> new_width, fill |-> value ],
               r.res, IF r.self = calc.lv THEN calc.int ELSE None)

\* lv.set_width(new_width)
do_set_width(new_width) ==
    LET r == set_width(calc.lv, new_width)
    IN  Called(r.self, "set_width", [ value |-> { }, width |-> new_width ],
               r.res, IF r.self = calc.lv THEN calc.int ELSE None)

\* lv.set(idx, value)
do_set(idx, value) ==
    LET r == set(calc.lv, idx, value)
    IN  Called(r.self, "set", NoArg, r.res,
               IF r.self = calc.lv THEN calc.int ELSE None)

\* lv.set_all_to(value)
do_set_all_to(value) ==
    Called(set_all_to(calc.lv, value), "set_all_to", NoArg, Ok("unit"), None)

\* lv.set_int_value(value)
do_set_int_value(value) ==
    LET r == set_int_value(calc.lv, value)
    IN  Called(r.self, "set_int_value",
               [ value |-> value, width |-> calc.lv.width ], r.res,
               IF r.res.tag = "Ok" THEN Some(value) ELSE calc.int)

\* lv.as_u128()
do_as_u128 == Called(calc.lv, "as_u128", NoArg, as_u128(calc.lv), calc.int)

\* lv.get(idx)
do_get(idx) == Called(calc.lv, "get", NoArg, get(calc.lv, idx), calc.int)

NextVector ==
    \/ \E value \in LvFills, width \in LvWidths : new_from_ieee_value(value, width)
    \/ \E width \in LvWidths : new_with_width(width)
    \/ \E value \in LvInts, width \in LvWidths : new_from_int_value(value, width)
    \/ \E v \in LvVecs : new_from_vec(v)
    \/ \E s \in LvStrs : new_from_str(s)
    \/ \E width \in LvWidths, value \in LvFills : do_resize(width, value)
    \/ \E width \in LvWidths : do_set_width(width)
    \/ \E idx \in LvIdx, value \in LvFills : do_set(idx, value)
    \/ \E value \in LvFills : do_set_all_to(value)
    \/ \E value \in LvInts : do_set_int_value(value)
    \/ do_as_u128
    \/ \E idx \in LvIdx : do_get(idx)

SpecVector == InitVector /\ [][NextVector]_vars

\* the masks that have bit i set
MasksAt(lv, i) == { m \in Ieee1164 : i \in lv.masks[m] }

\* the invariant documented on struct LogicVector
Representation(lv) ==
    /\ 1 <= lv.width /\ lv.width <= 128
    /\ \A m \in Ieee1164 : lv.masks[m] \subseteq u128_MAX
    /\ \A i \in u128_MAX :
          Cardinality(MasksAt(lv, i)) = IF i < lv.width THEN 1 ELSE 0

\* the vector a shrinking resize returned
SplitOff == calc.op = "resize" /\ calc.r.tag = "Some"

\* C18: every vector reached by the constructors and the mutating calls,
\* and every vector split off by a shrinking resize, has a width in 1..128,
\* exactly one mask set at each bit below its width and none at or above
\* it; the debug assertions on sanity_check therefore never fire.
C18_RepresentationInvariant ==
    /\ calc.lv # NoVector =>
          /\ Representation(calc.lv)
          /\ sanity_check(calc.lv.masks, calc.lv.width) = Ok("unit")
    /\ SplitOff =>
          /\ Representation(calc.r.val)
          /\ sanity_check(calc.r.val.masks, calc.r.val.width) = Ok("unit")

\* A vector of 128 bits has been cut to 1 bit and the 127 bits split off hold
\* a value that was set on the top bit.
C18_Witness ==
    /\ SplitOff
    /\ calc.lv.width = 1
    /\ calc.r.val.width = 127
    /\ 126 \in calc.r.val.masks[vZ]
    /\ calc.r.val.masks[v1] # { }

\* value >= 2^width: the integer has a one bit at index width or above
NeedsMoreBits(value, width) == \E i \in value : i >= width

\* C19: from_int_value(value, width) returns None exactly when the width is
\* 0, the width is above 128 or the value needs more than width bits; in
\* every other case it returns a vector of exactly that width; it never
\* panics.
C19_FromIntValueNoneExactly ==
    calc.op = "from_int_value" =>
        LET value == calc.arg.value
            width == calc.arg.width
        IN  /\ calc.r # Panic
            /\ calc.r = None <=>
                  (width = 0 \/ width > 128 \/ NeedsMoreBits(value, width))
            /\ calc.r # None =>
                  /\ calc.r.tag = "Some"
                  /\ calc.r.val.width = width
                  /\ calc.lv = calc.r.val

\* The integer 0 was given with the width 128 and a vector of 128 zeros came
\* back.
C19_Witness ==
    /\ calc.op = "from_int_value"
    /\ calc.arg = [ value |-> { }, width |-> 128 ]
    /\ calc.r.tag = "Some"
    /\ calc.r.val.width = 128
    /\ calc.r.val.masks[v0] = u128_MAX

\* C20: a vector built from an integer by from_int_value and not written to
\* since gives that integer back from as_u128.
C20_IntegerRoundTrip ==
    (calc.op = "as_u128" /\ calc.int # None) => calc.r = calc.int

\* as_u128 was called on the vector built from 2^127 + 1 with 128 bits.
C20_Witness ==
    /\ calc.op = "as_u128"
    /\ calc.int = Some({ 0, 127 })
    /\ calc.lv.width = 128
    /\ calc.r = Some({ 0, 127 })

\* bit i of a vector
Bit(lv, i) == Masks_get(lv.masks, i)

\* C21: a resize to a larger width keeps the low bits, sets every new high
\* bit to the fill value and returns None; a resize to a smaller width keeps
\* the low new_width bits and returns the removed high bits, in their order,
\* as a vector of width old - new_width; a resize to the same width changes
\* nothing and returns None.
C21_ResizeSemantics ==
    [][ (calc'.op = "resize" /\ calc'.r # Panic) =>
          LET old  == calc.lv
              new  == calc'.lv
              nw   == calc'.arg.width
              fill == calc'.arg.fill
              res  == calc'.r
          IN  /\ new.width = nw
              /\ nw > old.width =>
                    /\ \A i \in 0..(old.width - 1) : Bit(new, i) = Bit(old, i)
                    /\ \A i \in old.width..(nw - 1) : Bit(new, i) = fill
                    /\ res = None
              /\ nw < old.width =>
                    /\ \A i \in 0..(nw - 1) : Bit(new, i) = Bit(old, i)
                    /\ res.tag = "Some"
                    /\ res.val.width = old.width - nw
                    /\ \A j \in 0..(old.width - nw - 1) :
                          Bit(res.val, j) = Bit(old, nw + j)
              /\ nw = old.width => (new = old /\ res = None) ]_vars

\* A vector of ones and zeros has been grown from 127 to 128 bits with Z.
C21_Witness ==
    /\ calc.op = "resize"
    /\ calc.arg.width = 128
    /\ calc.arg.fill = vZ
    /\ calc.lv.masks[vZ] = { 127 }
    /\ calc.lv.masks[v1] # { }
    /\ calc.r = None

\* the integer a vector of 0, L, 1 and H bits stands for
WeakInt(lv) == { i \in 0..(lv.width - 1) : Bit(lv, i) \in { v1, vH } }

\* every bit of the vector is 0, L, 1 or H
AllBinary(lv) == \A i \in 0..(lv.width - 1) : Bit(lv, i) \in { v0, vL, v1, vH }

\* C22: as_u128 returns Some(v) exactly when every bit is 0, L, 1 or H, bit
\* i of v being 1 exactly when bit i of the vector is 1 or H, and returns
\* None when any bit is U, X, Z, W or DontCare.
C22_AsU128ReadsWeakBits ==
    calc.op = "as_u128" =>
        /\ calc.r.tag = "Some" <=> AllBinary(calc.lv)
        /\ calc.r.tag = "Some" => calc.r.val = WeakInt(calc.lv)
        /\ ~AllBinary(calc.lv) => calc.r = None

-----------------------------------------------------------------------------
(* The binary operations of LogicVector.  overflow_checks is the build      *)
(* option of that name: with it (the debug profile) an overflowing u128     *)
(* addition panics, without it (the release profile) it wraps.              *)

\* the carry into bit i of a + b: some lower bit generates a carry and every
\* bit between passes it on
carry_into(a, b, i) ==
    \E j \in 0..(i - 1) :
        /\ j \in a /\ j \in b
        /\ \A k \in (j + 1)..(i - 1) : k \in a \/ k \in b

\* a + b on u128: the sum modulo 2^128 and the carry out of bit 127
u128_add(a, b) ==
    [ sum   |-> { i \in u128_MAX : ((i \in a) # (i \in b)) # carry_into(a, b, i) },
      carry |-> carry_into(a, b, u128_BITS) ]

\* the + of two u128 as the build compiles it: Ok(sum), or a panic
u128_plus(a, b, overflow_checks) ==
    LET r == u128_add(a, b)
    IN  IF r.carry /\ overflow_checks THEN Panic ELSE Ok(r.sum)

\* fn and: the vector AND
lv_and(lhs, rhs) ==
    IF lhs.width # rhs.width THEN None
    ELSE IF has_UXZ(lhs) \/ has_UXZ(rhs) THEN Panic
    ELSE Some(LogicVector(
             [ Masks_default EXCEPT
                 ![v1] = lhs.masks[v1] \cap rhs.masks[v1],
                 ![v0] = lhs.masks[v0] \cap rhs.masks[v0] ],
             lhs.width))

\* fn or: the vector OR
lv_or(lhs, rhs) ==
    IF lhs.width # rhs.width THEN None
    ELSE IF has_UXZ(lhs) \/ has_UXZ(rhs) THEN Panic
    ELSE Some(LogicVector(
             [ Masks_default EXCEPT
                 ![v1] = lhs.masks[v1] \cup rhs.masks[v1],
                 ![v0] = lhs.masks[v0] \cup rhs.masks[v0] ],
             lhs.width))

\* x ^ y on u128
Xor128(x, y) == (x \ y) \cup (y \ x)

\* fn xor: the vector XOR
lv_xor(lhs, rhs) ==
    IF lhs.width # rhs.width THEN None
    ELSE IF has_UXZ(lhs) \/ has_UXZ(rhs) THEN Panic
    ELSE Some(LogicVector(
             [ Masks_default EXCEPT
                 ![v1] = Xor128(lhs.masks[v1], rhs.masks[v1]),
                 ![v0] = Xor128(lhs.masks[v0], rhs.masks[v0]) ],
             lhs.width))

\* unsafe_and, unsafe_or, unsafe_xor: the operators &, | and ^ unwrap
unsafe_version(r) == IF r.tag = "Some" THEN r.val ELSE Panic

\* LogicVector::safe_add
safe_add(lhs, rhs, overflow_checks) ==
    IF lhs.width # rhs.width THEN None
    ELSE LET width == lhs.width
             a == as_u128(lhs)
             b == as_u128(rhs)
         IN  IF a.tag = "Some" /\ b.tag = "Some"
             THEN LET sum == u128_plus(a.val, b.val, overflow_checks)
                  IN  IF sum = Panic THEN Panic
                      ELSE from_int_value(sum.val \cap mask_from_width(width),
                                          width)
             ELSE Some(with_width(width))

\* fn add: the operator +
lv_add(lhs, rhs, overflow_checks) ==
    LET width == lhs.width
        a == as_u128(lhs)
        b == as_u128(rhs)
    IN  IF width # rhs.width THEN Panic
        ELSE IF a = None \/ b = None THEN Panic
        ELSE LET sum == u128_plus(a.val, b.val, overflow_checks)
             IN  IF sum = Panic THEN Panic
                 ELSE unsafe_version(
                          from_int_value(sum.val \cap mask_from_width(width),
                                         width))

\* fn resolve of the mask-based LogicVector: unimplemented!()
lv_resolve(lhs, rhs) == Panic

\* LogicVector::is_ieee1164
is_ieee1164(lv, value) ==
    lv.masks[value] = u128_MAX \cap mask_from_width(lv.width)

\* fn resolve of the Vec-based LogicVector (logicvector.rs)
vec_resolve(lhs, rhs) ==
    IF lhs.width # rhs.width THEN Panic
    ELSE IF is_ieee1164(lhs, vZ) /\ is_ieee1164(rhs, vZ)
    THEN from_ieee_value(vZ, lhs.width)
    ELSE IF is_ieee1164(lhs, vZ) THEN rhs
    ELSE IF is_ieee1164(rhs, vZ) THEN lhs
    ELSE LogicVector(
             [ m \in Ieee1164 |->
                 { i \in 0..(lhs.width - 1) :
                     resolve(Bit(lhs, i), Bit(rhs, i)) = m } ],
             lhs.width)

\* integers for the operands of 128 bits
ArithInts128 ==
    { { }, { 0 }, { 127 }, { 0, 127 }, u128_MAX \ { 127 }, u128_MAX }

\* integers for the operands of 4 bits: 0, 3, 5 and 15
ArithInts4 == { { }, { 0, 1 }, { 0, 2 }, { 0, 1, 2, 3 } }

\* strings for the operands with bits other than 0 and 1
ArithStrs ==
    { << "U", "X", "0", "1", "Z", "W", "L", "H", "-" >>,
      << "1", "Z", "0", "H" >>, << "H", "l", "1", "0" >>,
      << "Z", "Z", "Z", "Z" >>, << "-", "1", "0", "Z" >>,
      Repeat("Z", 128) }

\* the operands: vectors of 128 and of 4 bits built from integers, vectors
\* parsed from strings, and the nine vectors of 9 equal bits
Operands ==
    { from_int_value(value, 128).val : value \in ArithInts128 }
        \cup { from_int_value(value, 4).val : value \in ArithInts4 }
        \cup { from_str(s).val : s \in ArithStrs }
        \cup { from_ieee_value(value, 9) : value \in Ieee1164 }

\* the snapshots of fn resolve in the source tree
Snapshots == { "logicvector/mod.rs", "logicvector.rs" }

InitArith ==
    /\ \E lhs \in Operands :
           calc = [ lv |-> lhs, op |-> "none", arg |-> NoArg, r |-> None,
                    int |-> None, n |-> 0 ]
    /\ pv = << >>
    /\ SignalIdle
    /\ CircuitIdle

\* the state after lhs op rhs
Operated(op, rhs, overflow_checks, r) ==
    /\ calc.op = "none"
    /\ calc' = [ calc EXCEPT
                   !.op = op,
                   !.arg = [ rhs |-> rhs, overflow_checks |-> overflow_checks ],
                   !.r = r,
                   !.n = 1 ]
    /\ OtherIdle

\* &lhs & &rhs
do_bitand(rhs) ==
    Operated("bitand", rhs, FALSE, unsafe_version(lv_and(calc.lv, rhs)))

\* &lhs | &rhs
do_bitor(rhs) ==
    Operated("bitor", rhs, FALSE, unsafe_version(lv_or(calc.lv, rhs)))

\* &lhs ^ &rhs
do_bitxor(rhs) ==
    Operated("bitxor", rhs, FALSE, unsafe_version(lv_xor(calc.lv, rhs)))

\* lhs.safe_add(&rhs)
do_safe_add(rhs, overflow_checks) ==
    Operated("safe_add", rhs, overflow_checks,
             safe_add(calc.lv, rhs, overflow_checks))

\* &lhs + &rhs
do_add(rhs, overflow_checks) ==
    Operated("add", rhs, overflow_checks,
             lv_add(calc.lv, rhs, overflow_checks))

\* lhs.resolve(&rhs), in either snapshot
do_resolve(rhs, snapshot) ==
    Operated("resolve", rhs, FALSE,
             IF snapshot = "logicvector.rs" THEN vec_resolve(calc.lv, rhs)
                                            ELSE lv_resolve(calc.lv, rhs))

NextArith ==
    \/ \E rhs \in Operands : do_bitand(rhs)
    \/ \E rhs \in Operands : do_bitor(rhs)
    \/ \E rhs \in Operands : do_bitxor(rhs)
    \/ \E rhs \in Operands, overflow_checks \in BOOLEAN :
          do_safe_add(rhs, overflow_checks)
    \/ \E rhs \in Operands, overflow_checks \in BOOLEAN :
          do_add(rhs, overflow_checks)
    \/ \E rhs \in Operands, snapshot \in Snapshots : do_resolve(rhs, snapshot)

SpecArith == InitArith /\ [][NextArith]_vars

\* both operands have the same width and only Strong 0 and 1 bits
BothStrong ==
    /\ calc.lv.width = calc.arg.rhs.width
    /\ \A i \in 0..(calc.lv.width - 1) :
          Bit(calc.lv, i) \in { v0, v1 } /\ Bit(calc.arg.rhs, i) \in { v0, v1 }

\* the bits of a limb: integers are added 16 bits at a time
LimbBits == 16

RECURSIVE Pow2(_)
Pow2(n) == IF n = 0 THEN 1 ELSE 2 * Pow2(n - 1)

RECURSIVE LimbValue(_, _, _)
\* the number held by the bits k * LimbBits + i .. k * LimbBits + 15 of x
LimbValue(x, k, i) ==
    IF i = LimbBits THEN 0
    ELSE (IF k * LimbBits + i \in x THEN Pow2(i) ELSE 0) + LimbValue(x, k, i + 1)

RECURSIVE LimbSum(_, _, _)
\* limb k of a + b with the carry out of the limbs below it
LimbSum(a, b, k) ==
    LimbValue(a, k, 0) + LimbValue(b, k, 0)
        + (IF k = 0 THEN 0 ELSE LimbSum(a, b, k - 1) \div Pow2(LimbBits))

\* (a + b) mod 2^width, by arithmetic on the limbs
SumMod(a, b, width) ==
    { i \in 0..(width - 1) :
        (LimbSum(a, b, i \div LimbBits) \div Pow2(i % LimbBits)) % 2 = 1 }

\* C23: adding two vectors of the same width whose bits are all 0 or 1
\* gives a vector of that width whose integer is (a + b) mod 2^width,
\* through safe_add and through +, also when the sum carries out of bit 127.
C23_AddWraps ==
    (calc.op \in { "safe_add", "add" } /\ BothStrong) =>
        LET sum == IF calc.op = "safe_add" /\ calc.r.tag = "Some"
                   THEN calc.r.val ELSE calc.r
        IN  /\ sum # Panic /\ sum # None
            /\ sum.width = calc.lv.width
            /\ as_u128(sum) =
                  Some(SumMod(calc.lv.masks[v1], calc.arg.rhs.masks[v1],
                              calc.lv.width))

\* both operands have the same width and one has a bit other than 0 and 1
SomeUnknown ==
    /\ calc.lv.width = calc.arg.rhs.width
    /\ ~BothStrong

\* C24: adding two vectors of the same width of which one has a bit other
\* than 0 and 1 never fails or panics, through safe_add and through +, and
\* gives a vector of that width whose bits are all Uninitialized.
C24_UnknownPropagatesThroughAdd ==
    (calc.op \in { "safe_add", "add" } /\ SomeUnknown) =>
        LET sum == IF calc.op = "safe_add" /\ calc.r.tag = "Some"
                   THEN calc.r.val ELSE calc.r
        IN  /\ sum # Panic /\ sum # None
            /\ sum.width = calc.lv.width
            /\ is_ieee1164(sum, vU)

\* the scalar operator behind a vector operator
Scalar(op, a, b) ==
    CASE op = "bitand" -> and(a, b)
      [] op = "bitor"  -> or(a, b)
      [] op = "bitxor" -> xor(a, b)

\* the result is a vector of the operands' width and each of its bits is in
\* the mask of the scalar result for that bit of the operands, and in no
\* other
Bitwise ==
    /\ calc.r # Panic
    /\ calc.r.width = calc.lv.width
    /\ \A i \in 0..(calc.lv.width - 1) :
          MasksAt(calc.r, i)
              = { Scalar(calc.op, Bit(calc.lv, i), Bit(calc.arg.rhs, i)) }

\* the integer a & b, a | b or a ^ b
IntOf(op, a, b) ==
    CASE op = "bitand" -> a \cap b
      [] op = "bitor"  -> a \cup b
      [] op = "bitxor" -> (a \cup b) \ (a \cap b)

\* C25: the AND, OR and XOR of two vectors of the same width whose bits are
\* all Strong 0 or 1 is a vector of that width, each bit the scalar operator
\* of the operands' bits, and its integer is a & b, a | b or a ^ b.
C25_BitwiseFastPath ==
    (calc.op \in { "bitand", "bitor", "bitxor" } /\ BothStrong) =>
        /\ Bitwise
        /\ as_u128(calc.r)
              = Some(IntOf(calc.op, calc.lv.masks[v1], calc.arg.rhs.masks[v1]))

\* C26: the AND, OR and XOR of two vectors of the same width of which one
\* has a bit other than Strong 0 and 1 returns, without panicking, a vector
\* of that width, each bit the scalar truth-table result for the operands'
\* bits.
C26_BitwiseEveryValue ==
    (calc.op \in { "bitand", "bitor", "bitxor" } /\ SomeUnknown) => Bitwise

\* C27: once a tick has returned false and nothing is written, connected,
\* disconnected or dropped from outside, every later tick returns false and
\* leaves every port value unchanged.
C27_FixpointStable ==
    [][ phase = "stable" => (~ret' /\ pv' = pv) ]_vars

\* Three more ticks were made on a bus that had settled with one buffer
\* driving 1 and the other released.
C27_Witness ==
    /\ phase = "stable"
    /\ applied = MaxSettled
    /\ ~ret
    /\ comps = BusComps
    /\ pv["t1.z"] = v1
    /\ pv["t2.z"] = vZ
    /\ pv["o"] = v1

-----------------------------------------------------------------------------
(* Order of the drivers *)

\* The rearrangements of a list of n drivers
Rearrangements(n) ==
    { f \in [ 1..n -> 1..n ] : \A i, j \in 1..n : f[i] = f[j] => i = j }

(* C28: the value an update writes to the loads of a signal does not depend *)
(* on the order in which its drivers were connected: it is the left fold of *)
(* resolve over the values the drivers held, taken in any order whatever    *)
(* (so resolve is commutative and associative on these values).             *)
C28_DriverOrderIndependent ==
    [][ (last'.op = "update" /\ last'.s = "s1" /\ LiveDrivers("s1") # << >>) =>
          LET n == Len(LiveDrivers("s1"))
          IN  \A f \in Rearrangements(n) :
                \A i \in DOMAIN LiveLoads("s1") :
                    pv'[LiveLoads("s1")[i]] =
                        RefResolved([ k \in 1..n |-> DriverValues("s1")[f[k]] ], n)
      ]_vars

\* an update has resolved a weak zero, a weak one and a second weak one,
\* connected last port first, onto the load
C28_Witness ==
    /\ last.op = "update"
    /\ input_ports["s1"] = << "io", "b", "a" >>
    /\ output_ports["s1"] = << "io", "o" >>
    /\ pv["a"] = vL
    /\ pv["b"] = vH
    /\ pv["io"] = vW
    /\ pv["o"] = vW

-----------------------------------------------------------------------------
(* Resolution of vectors *)

\* C29: the resolve of two vectors of the same width, all-Z operands
\* included, returns a vector of that width whose bit i is the scalar
\* resolve of bit i of the operands (and so is the same for the operands in
\* either order).
C29_VectorResolveBitwise ==
    (calc.op = "resolve" /\ calc.lv.width = calc.arg.rhs.width) =>
        /\ calc.r # Panic
        /\ calc.r.width = calc.lv.width
        /\ \A i \in 0..(calc.lv.width - 1) :
              MasksAt(calc.r, i)
                  = { resolve(Bit(calc.lv, i), Bit(calc.arg.rhs, i)) }
        /\ \A i \in 0..(calc.lv.width - 1) :
              MasksAt(calc.r, i)
                  = { resolve(Bit(calc.arg.rhs, i), Bit(calc.lv, i)) }

-----------------------------------------------------------------------------
(* Circuits nobody has written to *)

\* C30: in a circuit of signals and AND, OR, XOR, Buffer and Inverter gates
\* whose ports all hold Uninitialized, feedback loops included, every tick
\* leaves every port Uninitialized, no component reports a change and the
\* tick returns false.
C30_UninitializedStable ==
    [][ ((ticks' # ticks \/ applied' # applied)
            /\ \A p \in DOMAIN pv : pv[p] = vU) =>
          /\ \A p \in DOMAIN pv' : pv'[p] = vU
          /\ \A i \in DOMAIN reports' : ~reports'[i]
          /\ Len(reports') = Len(updater)
          /\ ~ret' ]_vars

\* an inverter wired to its own input has been ticked, signal first, and
\* ticked three more times
C30_Witness ==
    /\ comps = FeedbackComps("inv")
    /\ updater = << "sf", "g1" >>
    /\ calls = << "sf", "g1" >>
    /\ reports = << FALSE, FALSE >>
    /\ phase = "stable"
    /\ applied = MaxSettled
    /\ pv["g1a"] = vU
    /\ pv["g1z"] = vU

====
